---- MODULE Spec2Model ----
(***************************************************************************)
(* Model of the enhanced-rass Python sources:                              *)
(*   - rass-engine-service/py_reranker/rerank_service.py  (Spec)           *)
(*   - evaluation/trulens_evaluator/evaluate.py           (EvalSpec)       *)
(*   - evaluation/ragas_evaluator/evaluate.py             (EnvSpec)        *)
(* Python lists are sequences; list indices stored in values are 0-based   *)
(* as in the code.  Floating-point model scores are drawn from a small     *)
(* ordered set of integers.                                                *)
(***************************************************************************)
EXTENDS Integers, Sequences, FiniteSets, TLC

VARIABLES
    \* ---- rerank_service.py ----
    configFile,   \* content of config.yml on disk
    runAsMain,    \* TRUE: python rerank_service.py; FALSE: imported by a uvicorn launcher
    svcPc,        \* position in the module body
    config,       \* module global `config`
    MODEL_NAME,   \* module global `MODEL_NAME`
    port,         \* port the server listens on
    svcError,     \* exception that ended the process ("" when none)
    req,          \* the last RerankRequest handled
    modelScores,  \* what model.predict returned for it
    predictCalls, \* number of model.predict calls made while handling it
    resp,         \* the last response
    \* ---- trulens_evaluator/evaluate.py ----
    evalPc,       \* position in the __main__ loop
    qi,           \* 1-based index of the question being processed
    posted,       \* questions POSTed to the engine so far, in order
    lastResponse, \* what the engine did for the last POST
    lastRecord,   \* what query_with_context returned last
    warned,       \* whether the last call printed the "No text found" warning
    errorLogged,  \* whether an "Error calling RASS Engine" line was printed so far
    evalError,    \* exception that ended the process ("" when none)
    \* ---- ragas_evaluator/evaluate.py ----
    envPc,        \* position in the sequence of load_dotenv calls
    embFile,      \* embedding-service/.env
    rassFile,     \* rass-engine-service/.env
    environ       \* os.environ

svcVars == <<configFile, runAsMain, svcPc, config, MODEL_NAME, port, svcError,
             req, modelScores, predictCalls, resp>>
evalVars == <<evalPc, qi, posted, lastResponse, lastRecord, warned, errorLogged, evalError>>
envVars == <<envPc, embFile, rassFile, environ>>
vars == <<svcVars, evalVars, envVars>>

\* ---------------------------------------------------------------- bounds
MaxDocs == 3
MaxScore == 1
MaxSrc == 2

\* ------------------------------------------------------ program constants
DefaultModel == "cross-encoder/ms-marco-MiniLM-L-6-v2"
DefaultPort == 8008
NumQuestions == 8

\* ======================= rerank_service.py =============================

ConfigKeys == {"RERANKER_MODEL_NAME", "RERANKER_PORT"}
OtherModels == {"cross-encoder/custom"}
OtherPorts == {9000}

\* What config.yml can be: absent, not parseable as YAML, a YAML document that
\* is not a mapping (an empty file loads as None, "- a" as a list), or a
\* mapping holding any subset of the two keys.
ConfigFiles ==
    [kind : {"missing", "invalid", "null", "list"}, keys : {{}},
     model : OtherModels, port : OtherPorts]
    \cup [kind : {"map"}, keys : SUBSET ConfigKeys,
          model : OtherModels, port : OtherPorts]

Unbound == [bound |-> FALSE, kind |-> "none", keys |-> {}]
Bound(f) == [bound |-> TRUE, kind |-> f.kind, keys |-> f.keys]

NoTopK == [some |-> FALSE, val |-> 0]
TopK(k) == [some |-> TRUE, val |-> k]
TopKs == {NoTopK} \cup {TopK(k) : k \in (0 - MaxDocs)..(MaxDocs + 1)}

DocPool == <<"cat", "dog", "fish", "bird", "ant", "bee", "cow", "elk">>
Documents == {SubSeq(DocPool, 1, n) : n \in 0..MaxDocs}
Queries == {"", "q"}
ScoreVals == (0 - MaxScore)..MaxScore

RerankRequest == [query : Queries, documents : Documents, top_k : TopKs]

NoReq == [query |-> "", documents |-> <<>>, top_k |-> NoTopK]
NoResp == [status |-> 0, reranked |-> <<>>, scores |-> <<>>]

\* Python truthiness of an Optional[int]: None and 0 are false.
Truthy(k) == k.some /\ k.val # 0

Min(a, b) == IF a < b THEN a ELSE b
Max(a, b) == IF a > b THEN a ELSE b

\* s[:k] for an int k: the first k items, counted from the end when k < 0.
SliceToExclusive(s, k) == SubSeq(s, 1, Min(Max(k - 1, 0), Len(s)))
SliceTo(s, k) ==
    IF k >= 0 THEN SubSeq(s, 1, Min(k, Len(s)))
    ELSE SubSeq(s, 1, Max(Len(s) + k, 0))

\* enumerate(scores): the pairs (i, scores[i]) with i from 0.
EnumerateFromOne(scores) == [i \in 1..Len(scores) |-> <<i, scores[i]>>]
Enumerate(scores) == [i \in 1..Len(scores) |-> <<i - 1, scores[i]>>]

\* key=lambda x: -x[1]
SortKeyAscending(x) == x[2]
SortKey(x) == 0 - x[2]

\* sorted(): a stable sort.  Items are taken left to right and each is placed
\* after every item already placed whose key is not greater.
InsertPosBeforeEqual(t, x) == Cardinality({j \in 1..Len(t) : SortKey(t[j]) < SortKey(x)})
InsertPos(t, x) == Cardinality({j \in 1..Len(t) : SortKey(t[j]) <= SortKey(x)})

RECURSIVE Sorted(_)
Sorted(s) ==
    IF s = <<>> THEN <<>>
    ELSE LET t == Sorted(SubSeq(s, 1, Len(s) - 1))
             x == s[Len(s)]
             n == InsertPos(t, x)
         IN  SubSeq(t, 1, n) \o <<x>> \o SubSeq(t, n + 1, Len(t))

\* if not req.documents or not req.query
RejectedOnlyIfBoth(r) == r.documents = <<>> /\ r.query = ""
Rejected(r) == r.documents = <<>> \/ r.query = ""

\* Lines 41-47 of rerank(): the response built from the model's scores.
RerankResult(r, scores) ==
    LET reranked == Sorted(Enumerate(scores))
        indices == [j \in 1..Len(reranked) |-> reranked[j][1]]
        sorted_scores == [j \in 1..Len(reranked) |-> reranked[j][2]]
    IN  IF Truthy(r.top_k)
        THEN [status |-> 200,
              reranked |-> SliceTo(indices, r.top_k.val),
              scores |-> SliceTo(sorted_scores, r.top_k.val)]
        ELSE [status |-> 200, reranked |-> indices, scores |-> sorted_scores]

SvcInit ==
    /\ configFile \in ConfigFiles
    /\ runAsMain \in BOOLEAN
    /\ svcPc = "start"
    /\ config = Unbound
    /\ MODEL_NAME = ""
    /\ port = 0
    /\ svcError = ""
    /\ req = NoReq
    /\ modelScores = <<>>
    /\ predictCalls = 0
    /\ resp = NoResp

\* Lines 10-17: the try block around open/safe_load/get.
LoadConfig ==
    /\ UNCHANGED <<evalVars, envVars>>
    /\ svcPc = "start"
    /\ UNCHANGED <<configFile, runAsMain, port, req, modelScores, predictCalls, resp>>
    /\ CASE configFile.kind = "missing" ->
              \* open() raises FileNotFoundError, which is caught; config stays unbound
              /\ config' = Unbound
              /\ MODEL_NAME' = DefaultModel
              /\ svcPc' = "configLoaded"
              /\ svcError' = ""
         [] configFile.kind = "invalid" ->
              \* yaml.safe_load raises yaml.YAMLError, which is not caught
              /\ config' = Unbound
              /\ MODEL_NAME' = MODEL_NAME
              /\ svcPc' = "crashed"
              /\ svcError' = "YAMLError"
         [] configFile.kind \in {"null", "list"} ->
              \* config is None or a list: config.get raises AttributeError
              /\ config' = Bound(configFile)
              /\ MODEL_NAME' = MODEL_NAME
              /\ svcPc' = "crashed"
              /\ svcError' = "AttributeError"
         [] configFile.kind = "map" ->
              /\ config' = Bound(configFile)
              /\ MODEL_NAME' = IF "RERANKER_MODEL_NAME" \in configFile.keys
                               THEN configFile.model ELSE DefaultModel
              /\ svcPc' = "configLoaded"
              /\ svcError' = ""

\* Lines 20-24: the model is loaded and the app object created.
LoadModel ==
    /\ UNCHANGED <<evalVars, envVars>>
    /\ svcPc = "configLoaded"
    /\ svcPc' = "modelLoaded"
    /\ UNCHANGED <<configFile, runAsMain, config, MODEL_NAME, port, svcError,
                   req, modelScores, predictCalls, resp>>

\* Lines 49-52: started as the main program.
RunMain ==
    /\ UNCHANGED <<evalVars, envVars>>
    /\ svcPc = "modelLoaded"
    /\ runAsMain
    /\ UNCHANGED <<configFile, runAsMain, config, MODEL_NAME,
                   req, modelScores, predictCalls, resp>>
    /\ IF ~config.bound
       THEN \* `config` was never assigned: NameError
            /\ svcPc' = "crashed"
            /\ svcError' = "NameError"
            /\ port' = port
       ELSE /\ svcPc' = "listening"
            /\ svcError' = ""
            /\ port' = IF "RERANKER_PORT" \in config.keys
                       THEN configFile.port ELSE DefaultPort

\* The module is imported by a launcher (uvicorn rerank_service:app), which
\* chooses the port; the __main__ block does not run.
ServeImported ==
    /\ UNCHANGED <<evalVars, envVars>>
    /\ svcPc = "modelLoaded"
    /\ ~runAsMain
    /\ svcPc' = "listening"
    /\ \E p \in OtherPorts \cup {DefaultPort} : port' = p
    /\ UNCHANGED <<configFile, runAsMain, config, MODEL_NAME, svcError,
                   req, modelScores, predictCalls, resp>>

\* Lines 35-47: POST /rerank.
Rerank ==
    /\ UNCHANGED <<evalVars, envVars>>
    /\ svcPc = "listening"
    /\ resp = NoResp
    /\ \E r \in RerankRequest :
         /\ req' = r
         /\ IF Rejected(r)
            THEN /\ resp' = [status |-> 400, reranked |-> <<>>, scores |-> <<>>]
                 /\ modelScores' = <<>>
                 /\ predictCalls' = 0
            ELSE \E sc \in [1..Len(r.documents) -> ScoreVals] :
                 /\ modelScores' = sc
                 /\ predictCalls' = 1
                 /\ resp' = RerankResult(r, sc)
    /\ UNCHANGED <<configFile, runAsMain, svcPc, config, MODEL_NAME, port, svcError>>

\* The response is serialised and sent; the handler's locals are gone and the
\* service waits for the next request.
SendResponse ==
    /\ UNCHANGED <<evalVars, envVars>>
    /\ svcPc = "listening"
    /\ resp # NoResp
    /\ req' = NoReq
    /\ modelScores' = <<>>
    /\ predictCalls' = 0
    /\ resp' = NoResp
    /\ UNCHANGED <<configFile, runAsMain, svcPc, config, MODEL_NAME, port, svcError>>


\* =================== trulens_evaluator/evaluate.py =====================

\* A JSON value found (or not) under a key that should hold text.
Absent == [t |-> "absent", s |-> ""]
Null == [t |-> "null", s |-> ""]
Str(x) == [t |-> "str", s |-> x]

\* Values under `_source`: missing, null, or a dict with or without `text`.
SourceVals ==
    [t : {"absent", "null"}, text : {Absent}]
    \cup [t : {"dict"}, text : {Absent, Str("A")}]

\* Entries of source_documents: dicts, and values that are not dicts.
DocEntries ==
    [t : {"dict"}, src : SourceVals, text : {Absent, Str("B")}]
    \cup [t : {"str"}, src : {[t |-> "absent", text |-> Absent]}, text : {Absent}]

RECURSIVE SeqsUpTo(_, _)
SeqsUpTo(S, n) ==
    IF n = 0 THEN {<<>>}
    ELSE LET shorter == SeqsUpTo(S, n - 1)
         IN  shorter \cup {Append(q, x) : q \in {r \in shorter : Len(r) = n - 1}, x \in S}

\* Values under `source_documents`.
SourceDocs ==
    [t : {"absent", "null", "str"}, items : {<<>>}]
    \cup [t : {"list"}, items : SeqsUpTo(DocEntries, MaxSrc)]

\* The JSON object of a 2xx response.
Bodies == [answer : {Absent, Null, Str("ans")}, source_documents : SourceDocs]
NoBody == [answer |-> Absent, source_documents |-> [t |-> "absent", items |-> <<>>]]

FailureKinds == {"timeout", "refused", "http_error"}
Responses ==
    [kind : FailureKinds, data : {NoBody}] \cup [kind : {"ok"}, data : Bodies]
NoResponse == [kind |-> "none", data |-> NoBody]

\* str(e) of the exception requests raises.
Message(kind) ==
    CASE kind = "timeout" -> "Read timed out."
      [] kind = "refused" -> "Connection refused"
      [] kind = "http_error" -> "500 Server Error"
      [] OTHER -> ""

\* except requests.exceptions.RequestException: Timeout, ConnectionError and
\* HTTPError (from raise_for_status) are all subclasses.
CaughtConnectionErrorOnly(kind) == kind = "refused"
Caught(kind) == kind \in {"timeout", "refused", "http_error"}

\* Python truthiness of a value read with .get(): None and "" are false.
TruthyText(v) == v.t = "str" /\ v.s # ""

\* Line 49: doc.get('_source', {}).get('text') or doc.get('text'), for a dict
\* doc.  .get on None raises AttributeError.
SourceGetRaises(doc) == doc.src.t = "null"

DocText(doc) ==
    LET nested == IF doc.src.t = "dict" THEN doc.src.text ELSE Absent
    IN  IF TruthyText(nested) THEN nested ELSE doc.text

\* Lines 44-51: the loop over source_docs.  The result is the list built so
\* far and whether an AttributeError left the loop.
RECURSIVE ContextList(_)
ContextList(docs) ==
    IF docs = <<>> THEN [raised |-> FALSE, list |-> <<>>]
    ELSE LET before == ContextList(SubSeq(docs, 1, Len(docs) - 1))
             doc == docs[Len(docs)]
         IN  IF before.raised THEN before
             ELSE IF doc.t # "dict" THEN before
             ELSE IF SourceGetRaises(doc) THEN [raised |-> TRUE, list |-> before.list]
             ELSE IF TruthyText(DocText(doc))
                  THEN [raised |-> FALSE, list |-> Append(before.list, DocText(doc).s)]
                  ELSE before

\* "\n\n".join(context_list)
RECURSIVE Join(_)
Join(list) ==
    IF list = <<>> THEN ""
    ELSE IF Len(list) = 1 THEN list[1]
    ELSE Join(SubSeq(list, 1, Len(list) - 1)) \o "\n\n" \o list[Len(list)]

NoRecord == [answer |-> Absent, context |-> ""]

\* Lines 33-63: RASS_App.query_with_context for one engine response.
QueryWithContext(r) ==
    IF r.kind # "ok"
    THEN IF Caught(r.kind)
         THEN [raised |-> FALSE, exc |-> "", warned |-> FALSE,
               record |-> [answer |-> Str("Error: " \o Message(r.kind)), context |-> ""]]
         ELSE [raised |-> TRUE, exc |-> "RequestException", warned |-> FALSE,
               record |-> NoRecord]
    ELSE LET answer == IF r.data.answer.t = "absent"
                       THEN Str("No answer found.") ELSE r.data.answer
             source_docs == r.data.source_documents
             built == IF source_docs.t = "list" /\ source_docs.items # <<>>
                      THEN ContextList(source_docs.items)
                      ELSE [raised |-> FALSE, list |-> <<>>]
             context == Join(built.list)
         IN  IF built.raised
             THEN [raised |-> TRUE, exc |-> "AttributeError", warned |-> FALSE,
                   record |-> NoRecord]
             ELSE [raised |-> FALSE, exc |-> "", warned |-> (context = ""),
                   record |-> [answer |-> answer, context |-> context]]

EvalInit ==
    /\ evalPc = "loop"
    /\ qi = 1
    /\ posted = <<>>
    /\ lastResponse = NoResponse
    /\ lastRecord = NoRecord
    /\ warned = FALSE
    /\ errorLogged = FALSE
    /\ evalError = ""

\* Lines 135-140: the call of one iteration of the loop over
\* evaluation_questions, and the print of its answer.
AskQuestion ==
    /\ UNCHANGED <<svcVars, envVars>>
    /\ evalPc = "loop"
    /\ qi <= NumQuestions
    /\ \E r \in Responses :
         LET out == QueryWithContext(r)
         IN  /\ posted' = Append(posted, qi)
             /\ lastResponse' = r
             /\ lastRecord' = out.record
             /\ warned' = out.warned
             /\ errorLogged' = (errorLogged \/ (r.kind # "ok" /\ ~out.raised))
             /\ qi' = qi
             /\ IF out.raised
                THEN /\ evalPc' = "aborted"
                     /\ evalError' = out.exc
                ELSE IF out.record.answer.t # "str"
                THEN \* line 140: response_dict['answer'][:200] on None
                     /\ evalPc' = "aborted"
                     /\ evalError' = "TypeError"
                ELSE /\ evalPc' = "sleep"
                     /\ evalError' = ""

\* Lines 142-143: the pause; the next iteration rebinds the loop's locals.
Sleep ==
    /\ UNCHANGED <<svcVars, envVars>>
    /\ evalPc = "sleep"
    /\ evalPc' = "loop"
    /\ qi' = qi + 1
    /\ lastResponse' = NoResponse
    /\ lastRecord' = NoRecord
    /\ warned' = FALSE
    /\ UNCHANGED <<posted, errorLogged, evalError>>

\* Line 145: the loop is exhausted.
FinishLoop ==
    /\ UNCHANGED <<svcVars, envVars>>
    /\ evalPc = "loop"
    /\ qi > NumQuestions
    /\ evalPc' = "complete"
    /\ UNCHANGED <<qi, posted, lastResponse, lastRecord, warned, errorLogged, evalError>>

\* ==================== ragas_evaluator/evaluate.py ======================

EnvNames == {"OPENAI_API_KEY", "OPENAI_PLANNER_MODEL_NAME"}
Unset == "<unset>"

\* load_dotenv(dotenv_path=...) with its default override=False: a variable
\* of the file is set only when the environment does not hold it yet.  A
\* missing file is a file defining nothing.
LoadDotenv(file, env) ==
    [n \in EnvNames |-> IF env[n] = Unset /\ file[n] # Unset THEN file[n] ELSE env[n]]

EnvInit ==
    /\ envPc = "line20"
    /\ embFile \in [EnvNames -> {Unset, "from-embedding-service"}]
    /\ rassFile \in [EnvNames -> {Unset, "from-rass-engine-service"}]
    /\ environ \in [EnvNames -> {Unset, "from-shell"}]

\* Line 20
LoadEmbeddingEnv ==
    /\ UNCHANGED <<svcVars, evalVars>>
    /\ envPc = "line20"
    /\ environ' = LoadDotenv(embFile, environ)
    /\ envPc' = "line23"
    /\ UNCHANGED <<embFile, rassFile>>

\* Line 23
LoadRassEngineEnv ==
    /\ UNCHANGED <<svcVars, evalVars>>
    /\ envPc = "line23"
    /\ environ' = LoadDotenv(rassFile, environ)
    /\ envPc' = "line36"
    /\ UNCHANGED <<embFile, rassFile>>

\* Line 36, in main()
MainLoadEmbeddingEnv ==
    /\ UNCHANGED <<svcVars, evalVars>>
    /\ envPc = "line36"
    /\ environ' = LoadDotenv(embFile, environ)
    /\ envPc' = "line37"
    /\ UNCHANGED <<embFile, rassFile>>

\* Line 37, in main()
MainLoadRassEngineEnv ==
    /\ UNCHANGED <<svcVars, evalVars>>
    /\ envPc = "line37"
    /\ environ' = LoadDotenv(rassFile, environ)
    /\ envPc' = "loaded"
    /\ UNCHANGED <<embFile, rassFile>>

\* ========================== specifications =============================

SvcIdle ==
    /\ configFile = 0
    /\ runAsMain = FALSE
    /\ svcPc = "idle"
    /\ config = Unbound
    /\ MODEL_NAME = ""
    /\ port = 0
    /\ svcError = ""
    /\ req = NoReq
    /\ modelScores = <<>>
    /\ predictCalls = 0
    /\ resp = NoResp

EvalIdle ==
    /\ evalPc = "idle"
    /\ qi = 0
    /\ posted = <<>>
    /\ lastResponse = 0
    /\ lastRecord = 0
    /\ warned = FALSE
    /\ errorLogged = FALSE
    /\ evalError = ""

EnvIdle ==
    /\ envPc = "idle"
    /\ embFile = 0
    /\ rassFile = 0
    /\ environ = 0

Init == SvcInit /\ EvalIdle /\ EnvIdle

Next ==
    \/ LoadConfig
    \/ LoadModel
    \/ RunMain
    \/ ServeImported
    \/ Rerank
    \/ SendResponse

Spec == Init /\ [][Next]_vars

\* The evaluation driver is sequential code whose only blocking call has a
\* timeout, so a step that can be taken is taken.
EvalNext ==
    \/ AskQuestion
    \/ Sleep
    \/ FinishLoop

EvalSpecInit == SvcIdle /\ EvalInit /\ EnvIdle

EvalSpec == EvalSpecInit /\ [][EvalNext]_vars /\ WF_vars(EvalNext)

EnvNext ==
    \/ LoadEmbeddingEnv
    \/ LoadRassEngineEnv
    \/ MainLoadEmbeddingEnv
    \/ MainLoadRassEngineEnv

EnvSpecInit == SvcIdle /\ EvalIdle /\ EnvInit

EnvSpec == EnvSpecInit /\ [][EnvNext]_vars

\* ---------------------------------------------------------------------
\* Properties of rerank_service.py (checked under Spec)

Accepted == resp.status = 200
NDocs == Len(req.documents)

\* C1: an accepted request without top_k returns a permutation of 0..N-1:
\* `reranked` has length N and holds every index exactly once.
C1_Permutation ==
    (Accepted /\ ~req.top_k.some) =>
        /\ Len(resp.reranked) = NDocs
        /\ \A i \in 0..(NDocs - 1) :
             Cardinality({j \in 1..Len(resp.reranked) : resp.reranked[j] = i}) = 1

C1_Witness ==
    /\ Accepted
    /\ ~req.top_k.some
    /\ NDocs = MaxDocs
    /\ resp.reranked # [j \in 1..NDocs |-> j - 1]

\* C2: in every accepted response `scores` is non-increasing and parallel to
\* `reranked` (scores[j] is the model score of documents[reranked[j]]); model
\* scores ordered like [0.2, 0.9, 0.5] give reranked=[1,2,0] and the scores in
\* descending order.
C2_SortedParallel ==
    Accepted =>
        /\ Len(resp.scores) = Len(resp.reranked)
        /\ \A j \in 1..Len(resp.scores) :
             /\ resp.reranked[j] + 1 \in 1..Len(modelScores)
             /\ resp.scores[j] = modelScores[resp.reranked[j] + 1]
        /\ \A j, k \in 1..Len(resp.scores) :
             j < k => resp.scores[j] >= resp.scores[k]
        /\ (modelScores = <<-1, 1, 0>> /\ ~req.top_k.some) =>
             /\ resp.reranked = <<1, 2, 0>>
             /\ resp.scores = <<1, 0, -1>>

C2_Witness ==
    /\ Accepted
    /\ modelScores = <<-1, 1, 0>>
    /\ ~req.top_k.some
    /\ resp.reranked = <<1, 2, 0>>

\* C3: with top_k >= 1 both lists have length min(top_k, N) and are the first
\* min(top_k, N) entries of what the same request and scores give without
\* top_k; in every response the two lists have the same length.
C3_Truncation ==
    /\ Accepted => Len(resp.reranked) = Len(resp.scores)
    /\ (Accepted /\ req.top_k.some /\ req.top_k.val >= 1) =>
         LET full == RerankResult([req EXCEPT !.top_k = NoTopK], modelScores)
             m == Min(req.top_k.val, NDocs)
         IN  /\ Len(full.reranked) = NDocs
             /\ Len(resp.reranked) = m
             /\ Len(resp.scores) = m
             /\ resp.reranked = SubSeq(full.reranked, 1, m)
             /\ resp.scores = SubSeq(full.scores, 1, m)

C3_Witness ==
    /\ Accepted
    /\ req.top_k.some
    /\ req.top_k.val >= 1
    /\ req.top_k.val < NDocs
    /\ Len(resp.reranked) = req.top_k.val

\* C4: with top_k absent, zero or negative the response is the full
\* permutation: both lists have length N.
C4_FullWhenNotPositive ==
    (Accepted /\ (~req.top_k.some \/ req.top_k.val <= 0)) =>
        /\ Len(resp.reranked) = NDocs
        /\ Len(resp.scores) = NDocs

\* C5: an empty query or an empty document list is answered with HTTP 400,
\* without a call to model.predict and without a result; the model is called
\* only when both are non-empty.
C5_RejectNoScoring ==
    /\ (resp # NoResp /\ (req.query = "" \/ req.documents = <<>>)) =>
         /\ resp.status = 400
         /\ predictCalls = 0
         /\ modelScores = <<>>
         /\ resp.reranked = <<>>
         /\ resp.scores = <<>>
    /\ predictCalls > 0 => (req.query # "" /\ req.documents # <<>>)

C5_Witness ==
    /\ resp.status = 400
    /\ req.query = ""
    /\ req.documents # <<>>
    /\ predictCalls = 0

\* C6: documents with equal model scores appear in ascending original index
\* order.
C6_StableTies ==
    Accepted =>
        \A j, k \in 1..Len(resp.reranked) :
            (j < k /\ resp.scores[j] = resp.scores[k]) =>
                resp.reranked[j] < resp.reranked[k]

C6_Witness ==
    /\ Accepted
    /\ \E j, k \in 1..Len(resp.reranked) :
         /\ j < k
         /\ resp.scores[j] = resp.scores[k]
         /\ resp.reranked[j] < resp.reranked[k]
    /\ \E j, k \in 1..Len(resp.scores) : resp.scores[j] # resp.scores[k]

\* C8: with config.yml missing or malformed (empty, not a mapping, not YAML,
\* or lacking the keys) start-up is never fatal and the defaults are used,
\* also when the service is run as the main program.
LacksKeys == configFile.kind = "map" /\ configFile.keys = {}
C8_ConfigNeverFatal ==
    (configFile.kind \in {"missing", "invalid", "null", "list"} \/ LacksKeys) =>
        /\ svcPc # "crashed"
        /\ svcPc \in {"configLoaded", "modelLoaded", "listening"} =>
             MODEL_NAME = DefaultModel
        /\ (svcPc = "listening" /\ runAsMain) => port = DefaultPort

\* ---------------------------------------------------------------------
\* Properties of trulens_evaluator/evaluate.py (checked under EvalSpec)

\* A 2xx response the driver is written for: the answer, when present, is a
\* string and every `_source`, when present, is an object.
WellFormed(r) ==
    r.kind = "ok" =>
        /\ r.data.answer.t # "null"
        /\ \A i \in 1..Len(r.data.source_documents.items) :
             r.data.source_documents.items[i].src.t # "null"

ErrorRecord(kind) == [answer |-> Str("Error: " \o Message(kind)), context |-> ""]

C7_FailedCallDegrades ==
    /\ lastResponse.kind \in FailureKinds =>
         /\ lastRecord = ErrorRecord(lastResponse.kind)
         /\ evalPc # "aborted"
         /\ evalError = ""
    /\ posted = [i \in 1..Len(posted) |-> i]
    /\ evalPc = "complete" => Len(posted) = NumQuestions

\* C7: whatever calls fail (timeout, connection refused, non-2xx status), each
\* failed call yields {answer: "Error: <message>", context: ""} and does not
\* abort the batch: the questions are posted once each in list order, and
\* with every other call answered by a well-formed 2xx response the loop
\* reaches "Evaluation Complete".
C7_FailuresDoNotAbort ==
    /\ []C7_FailedCallDegrades
    /\ ([]WellFormed(lastResponse)) => <>(evalPc = "complete")

C7_Witness ==
    /\ evalPc = "complete"
    /\ errorLogged
    /\ posted = [i \in 1..NumQuestions |-> i]

\* The snippet the spec expects of one entry of source_documents: the text
\* under `_source.text`, else under `text`, when the entry is an object and
\* that text is there and non-empty.
FoundAt(v) == v.t = "str" /\ v.s # ""
Snippet(e) ==
    IF e.t # "dict" THEN <<>>
    ELSE IF e.src.t = "dict" /\ FoundAt(e.src.text) THEN <<e.src.text.s>>
    ELSE IF FoundAt(e.text) THEN <<e.text.s>>
    ELSE <<>>

RECURSIVE Snippets(_)
Snippets(items) ==
    IF items = <<>> THEN <<>>
    ELSE Snippets(SubSeq(items, 1, Len(items) - 1)) \o Snippet(items[Len(items)])

\* C10: for every 2xx JSON-object response query_with_context returns a
\* record and does not raise, whatever the fields look like; the context is
\* the snippets found joined by a blank line, and an empty context comes with
\* the warning.
C10_AlwaysReturnsRecord ==
    lastResponse.kind = "ok" =>
        /\ evalError # "AttributeError"
        /\ lastRecord.answer.t # "absent"
        /\ lastRecord.context = Join(Snippets(lastResponse.data.source_documents.items))
        /\ lastRecord.context = "" => warned

\* ---------------------------------------------------------------------
\* Properties of ragas_evaluator/evaluate.py (checked under EnvSpec)

\* C9: once both files are loaded, a variable defined in both has the value of
\* the later file (rass-engine-service); a variable defined in one file only
\* has that file's value.  (Variables the process environment held before
\* any file was loaded are left out of the statement.)
C9_LaterFileWins ==
    envPc \in {"line36", "line37", "loaded"} =>
        \A n \in EnvNames :
            environ[n] # "from-shell" =>
                /\ rassFile[n] # Unset => environ[n] = rassFile[n]
                /\ (rassFile[n] = Unset /\ embFile[n] # Unset) => environ[n] = embFile[n]

====
